---- MODULE Spec2Model ----
(***************************************************************************)
(* The DXF analysis core of EasyWorkApp (src/core/dxf_core/dxf_engine.py): *)
(* analyze_dxf = parse_dxf ; build_polygons_with_holes ; compute_metrics,  *)
(* and the arc tessellation approx_arc used for CIRCLE and ARC entities.   *)
(* The import tab of the user interface (src/ui), which calls analyze_dxf  *)
(* and hands the result to the application state, is modelled beside it.   *)
(*                                                                         *)
(* Numbers.  Floats are modelled in fixed point.  A raw drawing coordinate *)
(* is an integer count of 1/1000 drawing unit; a unit factor f is held as  *)
(* 5*f (so 25.4 -> 127, 304.8 -> 1524, 1.0 -> 5); a scaled coordinate is   *)
(* raw * (5*f), a count of 1/5000 mm.  Areas therefore count 4e-8 mm^2 and *)
(* the threshold 1e-6 mm^2 is 25.  A coordinate is a pair <<kind, value>>  *)
(* with kind "fin", "nan" or "inf", so that the non-finite floats a DXF    *)
(* file can hold are values of the model too.                              *)
(***************************************************************************)
EXTENDS Integers, Sequences, FiniteSets, TLC

VARIABLES
    pc,           \* where analyze_dxf (or the arc tessellation) stands
    readable,     \* input: ezdxf.readfile succeeds on the file
    insunits,     \* input: the header's $INSUNITS, or Absent
    entities,     \* input: the modelspace, a sequence of entities
    factor,       \* parse_dxf: the scale factor
    idx,          \* parse_dxf: index of the next entity of the scan
    pointlists,   \* parse_dxf: the point sequences collected so far
    closed_polys, \* build_polygons_with_holes: the rings, sorted by area
    parent,       \* build_polygons_with_holes: parent[i], NoParent for None
    polygons_out, \* build_polygons_with_holes: the polygons with holes
    open_lines,   \* build_polygons_with_holes: the open lines
    metrics,      \* compute_metrics: its return value
    result,       \* analyze_dxf: the DXFAnalysisResult, NoResult before
    arc,          \* input of the tessellation: a CIRCLE or ARC entity
    arc_out,      \* entity_to_pointlists on arc: the tagged sample angles
    bad_lines     \* input: the open lines (by index) whose .length raises

\* The import tab inside the main window (src/ui).
VARIABLES
    ui_pc,        \* where _handle_select_clicked stands, "idle" outside it
    selections,   \* how many times the button has been clicked
    file_path,    \* the path the file dialog returned, "" when cancelled
    analyses,     \* how many times analyze_dxf has returned a result
    local_result, \* the handler's local variable result
    tab_result,   \* DxfImportTab._result
    shown,        \* what _update_metrics last put into the labels and preview
    emitted,      \* the arguments of the dxf_loaded signals emitted so far
    dxf_result,   \* app_state.dxf_result
    info_label,   \* what EstimateTab.refresh last showed
    last_ok,      \* (history) the result of the latest successful analysis
    before,       \* (history) tab_result, dxf_result, emitted at the click
    outcome       \* (history) how the latest selection ended

ui_vars == <<ui_pc, selections, file_path, analyses, local_result, tab_result, shown,
             emitted, dxf_result, info_label, last_ok, before, outcome>>

engine_vars == <<pc, readable, insunits, entities, factor, idx, pointlists,
                 closed_polys, parent, polygons_out, open_lines, metrics,
                 result, arc, arc_out, bad_lines>>

vars == <<engine_vars, ui_vars>>

----------------------------------------------------------------------------
(* Bounds of the model. *)

MaxEntities == 3
MaxContours == 3
MaxLines == 3
MaxSelections == 3

----------------------------------------------------------------------------
(* Floats. *)

Fin(v) == <<"fin", v>>
NaN == <<"nan", 0>>
Inf == <<"inf", 0>>

isnan(c) == c[1] = "nan"
isfinite(c) == c[1] = "fin"

\* c * scale for a positive scale: nan and inf are absorbing.
Mul(c, scale) == IF c[1] = "fin" THEN Fin(c[2] * scale) ELSE c

Pt(x, y) == <<Fin(x), Fin(y)>>
PX(p) == p[1][2]
PY(p) == p[2][2]
PointFinite(p) == isfinite(p[1]) /\ isfinite(p[2])

Abs(n) == IF n < 0 THEN -n ELSE n
Max2(a, b) == IF a >= b THEN a ELSE b

RECURSIVE Concat(_)
Concat(ss) == IF ss = <<>> THEN <<>> ELSE Head(ss) \o Concat(Tail(ss))

SeqsUpTo(S, n) == UNION {[1..k -> S] : k \in 0..n}

----------------------------------------------------------------------------
(* The unit resolver. *)

Absent == -1

mapping == (1 :> 127) @@ (2 :> 1524) @@ (4 :> 5) @@ (5 :> 50) @@ (6 :> 5000)

\* mapping.get(insunits): None is the falsy 0.
units_to_mm_factor(ins) == IF ins \in DOMAIN mapping THEN mapping[ins] ELSE 0

DefaultFactor == 5

\* (mutation) the factor without its "or 1.0"
resolve_factor_nodefault(ins) == units_to_mm_factor(ins)

\* units_to_mm_factor(ins) or 1.0
resolve_factor(ins) ==
    IF units_to_mm_factor(ins) # 0 THEN units_to_mm_factor(ins) ELSE DefaultFactor

----------------------------------------------------------------------------
(* Entities.  pts holds the raw vertices (LWPOLYLINE, POLYLINE), the two  *)
(* end points (LINE) or the flattened curve (SPLINE); raises says that    *)
(* reading the entity's attributes raises inside entity_to_pointlists.    *)

Entity(t, c, p) == [dxftype |-> t, closed |-> c, pts |-> p, raises |-> FALSE]

LineSeg == Entity("LINE", FALSE, <<Pt(0, 0), Pt(3000, 4000)>>)
LineNaN == Entity("LINE", FALSE, <<Pt(0, 0), <<NaN, Fin(1)>> >>)
LineInf == Entity("LINE", FALSE, <<Pt(0, 0), <<Inf, Fin(0)>> >>)
PolyNaN == Entity("LWPOLYLINE", FALSE, <<Pt(0, 0), <<Fin(1), NaN>>, Pt(2, 0)>>)
Unsupported == Entity("TEXT", FALSE, <<>>)
Broken == [dxftype |-> "LINE", closed |-> FALSE, pts |-> <<>>, raises |-> TRUE]
SqOuter == Entity("LWPOLYLINE", TRUE, <<Pt(0, 0), Pt(6, 0), Pt(6, 6), Pt(0, 6)>>)
SqMiddle == Entity("LWPOLYLINE", TRUE, <<Pt(1, 1), Pt(5, 1), Pt(5, 5), Pt(1, 5)>>)
SqInner == Entity("LWPOLYLINE", TRUE, <<Pt(2, 2), Pt(4, 2), Pt(4, 4), Pt(2, 4)>>)
SqCorner == Entity("LWPOLYLINE", TRUE, <<Pt(4, 4), Pt(6, 4), Pt(6, 6), Pt(4, 6)>>)
Tiny == Entity("LWPOLYLINE", TRUE, <<Pt(2, 2), Pt(3, 2), Pt(3, 3), Pt(2, 3)>>)
Bowtie == Entity("LWPOLYLINE", TRUE, <<Pt(0, 0), Pt(2, 2), Pt(2, 0), Pt(0, 2)>>)
TwoPt == Entity("LWPOLYLINE", TRUE, <<Pt(0, 0), Pt(1, 1)>>)
SqSmall == Entity("LWPOLYLINE", TRUE, <<Pt(0, 0), Pt(2, 0), Pt(2, 2), Pt(0, 2)>>)
Spline == Entity("SPLINE", FALSE, <<Pt(0, 0), Pt(3, 4), Pt(6, 0)>>)

OpenLoop ==
    Entity("LWPOLYLINE", FALSE, <<Pt(2, 2), Pt(4, 2), Pt(4, 4), Pt(2, 4), Pt(2, 2)>>)

ParseCatalog ==
    {LineSeg, LineNaN, LineInf, PolyNaN, Unsupported, Broken, SqSmall, Spline}
ContourCatalog ==
    {SqOuter, SqMiddle, SqInner, SqCorner, Tiny, Bowtie, TwoPt, LineSeg}

\* closed and open contours, good and bad, for the split by the closed flag
PartitionCatalog == {SqOuter, SqInner, Tiny, Bowtie, TwoPt, LineSeg, OpenLoop}

UnitCodes == {Absent, 0, 1, 2, 3, 4, 5, 6, 7}
ContourUnitCodes == {1, 4}

----------------------------------------------------------------------------
(* The entity flattener. *)

PointList(c, p, k) == [closed |-> c, pts |-> p, etype |-> k]

ScalePts(p, scale) == [i \in 1..Len(p) |-> <<Mul(p[i][1], scale), Mul(p[i][2], scale)>>]

\* abs(a - b) < 1e-6 on both axes: in fixed point, equal finite values
\* (a comparison with nan, as inf - inf is, is false).
Coincide(p, q) == PointFinite(p) /\ PointFinite(q) /\ PX(p) = PX(q) /\ PY(p) = PY(q)

\* The chunk entity_to_pointlists returns for the polygonal entity types;
\* the CIRCLE and ARC branches are arc_to_pointlists below.
entity_to_pointlists(e, scale) ==
    CASE e.dxftype \in {"LWPOLYLINE", "POLYLINE"} ->
            IF e.pts # <<>>
            THEN <<PointList(e.closed, ScalePts(e.pts, scale), "poly")>>
            ELSE <<>>
      [] e.dxftype = "LINE" ->
            <<PointList(FALSE, ScalePts(e.pts, scale), "line")>>
      [] e.dxftype = "SPLINE" ->
            LET pts == ScalePts(e.pts, scale)
            IN  IF pts # <<>>
                THEN <<PointList(Len(pts) >= 3 /\ Coincide(pts[1], pts[Len(pts)]),
                                 pts, "spline")>>
                ELSE <<>>
      [] OTHER -> <<>>

\* The coordinate-wise filter of parse_dxf and its length test.
DropNaN(p) == SelectSeq(p, LAMBDA q : ~(isnan(q[1]) \/ isnan(q[2])))

RECURSIVE FilterChunk(_)
FilterChunk(chunk) ==
    IF chunk = <<>> THEN <<>>
    ELSE LET pl == Head(chunk)
             ptsf == DropNaN(pl.pts)
         IN  (IF Len(ptsf) >= 2
              THEN <<PointList(pl.closed, ptsf, pl.etype)>>
              ELSE <<>>) \o FilterChunk(Tail(chunk))

\* (mutation) the loop body without its try ... except
scan_entity_nocatch(e, scale) ==
    [raised |-> e.raises,
     out |-> IF e.raises THEN <<>> ELSE FilterChunk(entity_to_pointlists(e, scale))]

\* One pass of the loop body of parse_dxf: try ... except Exception: continue.
\* raised says that an exception leaves the loop body, which the except
\* clause never lets happen.
scan_entity(e, scale) ==
    [raised |-> FALSE,
     out |-> IF e.raises THEN <<>> ELSE FilterChunk(entity_to_pointlists(e, scale))]

----------------------------------------------------------------------------
(* Arc tessellation.  Angles are whole degrees; a sample angle is the      *)
(* fraction num / den of a degree, and a sample point is the point of the  *)
(* circle at that angle.                                                   *)

PTS == 120

Angles == {0, 10, 30, 45, 90, 135, 180, 270, 350, 360}

\* (mutation) the end angle without the wraparound
wrap_end_never(sa, ea) == ea

\* if ea < sa: ea += 2 * math.pi
wrap_end(sa, ea) == IF ea < sa THEN ea + 360 ELSE ea

\* The (start, end) pairs of Angles on which pts * abs(ea - sa) / (2 * math.pi),
\* evaluated in IEEE-754 binary64 on the math.radians values, falls just
\* below the whole number the exact quotient is (119.99999999999999 for
\* 0 and 360).  On every other pair the float and the exact quotient have
\* the same integer part.
RoundsBelow ==
    {<<0, 30>>, <<0, 45>>, <<0, 90>>, <<0, 180>>, <<0, 360>>, <<30, 0>>,
     <<30, 270>>, <<30, 360>>, <<45, 90>>, <<45, 135>>, <<90, 135>>,
     <<90, 180>>, <<90, 270>>, <<135, 180>>, <<180, 0>>, <<180, 135>>,
     <<180, 270>>, <<180, 360>>, <<270, 0>>, <<270, 90>>, <<270, 135>>,
     <<270, 360>>, <<360, 45>>, <<360, 90>>, <<360, 135>>, <<360, 180>>}

\* int(pts * abs(ea - sa) / (2 * math.pi)) for the entity angles sa, ea
sample_quotient(pts, sa, ea) ==
    LET q == (pts * Abs(wrap_end(sa, ea) - sa)) \div 360
    IN  IF <<sa, ea>> \in RoundsBelow THEN q - 1 ELSE q

\* np.linspace(start, stop, num): num angles, the first start, the last stop
linspace(start, stop, num) ==
    [i \in 1..num |->
        [num |-> start * (num - 1) + (i - 1) * (stop - start), den |-> num - 1]]

approx_arc(start_angle, end_angle, pts) ==
    linspace(start_angle, wrap_end(start_angle, end_angle),
             Max2(4, sample_quotient(pts, start_angle, end_angle)))

\* The CIRCLE and ARC branches of entity_to_pointlists.
arc_to_pointlists(e) ==
    CASE e.dxftype = "CIRCLE" -> <<PointList(TRUE, approx_arc(0, 360, PTS), "circle")>>
      [] e.dxftype = "ARC" ->
            <<PointList(FALSE, approx_arc(e.start_angle, e.end_angle, PTS), "arc")>>
      [] OTHER -> <<>>

Circle == [dxftype |-> "CIRCLE", start_angle |-> 0, end_angle |-> 0]
Arc(sa, ea) == [dxftype |-> "ARC", start_angle |-> sa, end_angle |-> ea]
NoArc == [dxftype |-> "NONE", start_angle |-> 0, end_angle |-> 0]

----------------------------------------------------------------------------
(* Geometry: the shapely primitives the assembler calls, on point lists   *)
(* with finite coordinates.                                              *)

\* (b - a) x (c - a)
Cross(a, b, c) ==
    (PX(b) - PX(a)) * (PY(c) - PY(a)) - (PY(b) - PY(a)) * (PX(c) - PX(a))

Sign(n) == IF n > 0 THEN 1 ELSE IF n < 0 THEN -1 ELSE 0

\* c lies in the bounding box of the segment a b
InBox(a, b, c) ==
    /\ (PX(a) <= PX(c) /\ PX(c) <= PX(b)) \/ (PX(b) <= PX(c) /\ PX(c) <= PX(a))
    /\ (PY(a) <= PY(c) /\ PY(c) <= PY(b)) \/ (PY(b) <= PY(c) /\ PY(c) <= PY(a))

\* the closed segments a b and c d share a point
SegmentsMeet(a, b, c, d) ==
    LET o1 == Sign(Cross(a, b, c))
        o2 == Sign(Cross(a, b, d))
        o3 == Sign(Cross(c, d, a))
        o4 == Sign(Cross(c, d, b))
    IN  \/ o1 # o2 /\ o3 # o4
        \/ o1 = 0 /\ InBox(a, b, c)
        \/ o2 = 0 /\ InBox(a, b, d)
        \/ o3 = 0 /\ InBox(c, d, a)
        \/ o4 = 0 /\ InBox(c, d, b)

\* the segments a q and q c, which share q, share more than q
FoldsBack(a, q, c) ==
    /\ Cross(q, a, c) = 0
    /\ (PX(a) - PX(q)) * (PX(c) - PX(q)) + (PY(a) - PY(q)) * (PY(c) - PY(q)) > 0

RECURSIVE DropRepeated(_)
DropRepeated(pts) ==
    IF Len(pts) <= 1 THEN pts
    ELSE IF pts[1] = pts[2] THEN DropRepeated(Tail(pts))
    ELSE <<pts[1]>> \o DropRepeated(Tail(pts))

\* LinearRing(pts) raises: a ring needs at least 4 coordinates.
LinearRingRaises(pts) == Len(pts) < 4

\* ring.is_valid of a closed point list of at least 4 coordinates: finite
\* coordinates and a simple curve (segments meet only at shared end points).
\* Repeated consecutive points do not make a ring invalid: they are dropped
\* before the segments are compared.
is_valid(pts) ==
    LET q == DropRepeated(pts)
        n == Len(q) - 1
        nxt(i) == IF i = n THEN 1 ELSE i + 1
        adjacent(i, j) == nxt(i) = j \/ nxt(j) = i
    IN  /\ \A i \in 1..Len(pts) : PointFinite(pts[i])
        /\ n >= 3
        /\ \A i \in 1..n : ~FoldsBack(q[i], q[i + 1], q[nxt(i) + 1])
        /\ \A i \in 1..n : \A j \in (i + 1)..n :
              adjacent(i, j) \/ ~SegmentsMeet(q[i], q[i + 1], q[j], q[j + 1])

\* Twice the area of Polygon(ring): the shoelace sum over the closed list.
RECURSIVE Shoelace(_, _)
Shoelace(pts, i) ==
    IF i >= Len(pts) THEN 0
    ELSE PX(pts[i]) * PY(pts[i + 1]) - PX(pts[i + 1]) * PY(pts[i])
         + Shoelace(pts, i + 1)

Area2(pts) == Abs(Shoelace(pts, 1))

\* p lies in the closed convex region bounded by ring
InConvex(p, ring) ==
    \/ \A k \in 1..(Len(ring) - 1) : Cross(ring[k], ring[k + 1], p) >= 0
    \/ \A k \in 1..(Len(ring) - 1) : Cross(ring[k], ring[k + 1], p) <= 0

\* pj.contains(pi) for polygons without holes, pj convex and pi of positive
\* area: no point of pi lies outside pj.
contains(pj, pi) == \A k \in 1..Len(pi) : InConvex(pi[k], pj)

----------------------------------------------------------------------------
(* The contour assembler. *)

AreaEps == 25
NoParent == 0

\* if pts[0] != pts[-1]: pts = list(pts) + [pts[0]]
close_ring(pts) == IF pts[1] # pts[Len(pts)] THEN Append(pts, pts[1]) ELSE pts

\* (mutation) >= for >
area_ok_inclusive(a2) == a2 >= 2 * AreaEps

\* poly.area > 1e-6, on twice the area
area_ok(a2) == a2 > 2 * AreaEps

\* The closed branch of the first loop: the ring record, or nothing when
\* LinearRing raises, the ring is not valid or the area is too small.
ring_of(pl) ==
    LET pts == close_ring(pl.pts)
    IN  IF LinearRingRaises(pts) THEN <<>>
        ELSE IF ~is_valid(pts) THEN <<>>
        ELSE IF area_ok(Area2(pts)) THEN <<[pts |-> pts, area2 |-> Area2(pts)]>>
        ELSE <<>>

\* LineString(pts) raises on fewer than 2 points.
line_of(pl) == IF Len(pl.pts) < 2 THEN <<>> ELSE <<pl.pts>>

RECURSIVE collect_rings(_)
collect_rings(pls) ==
    IF pls = <<>> THEN <<>>
    ELSE (IF Head(pls).closed THEN ring_of(Head(pls)) ELSE <<>>)
         \o collect_rings(Tail(pls))

\* (mutation) a closed sequence that gives no ring is kept as an open line
RECURSIVE collect_lines_fallback(_)
collect_lines_fallback(pls) ==
    IF pls = <<>> THEN <<>>
    ELSE (IF Head(pls).closed /\ ring_of(Head(pls)) # <<>> THEN <<>>
          ELSE line_of(Head(pls)))
         \o collect_lines_fallback(Tail(pls))

RECURSIVE collect_lines(_)
collect_lines(pls) ==
    IF pls = <<>> THEN <<>>
    ELSE (IF Head(pls).closed THEN <<>> ELSE line_of(Head(pls)))
         \o collect_lines(Tail(pls))

\* closed_polys.sort(key=area): a stable ascending sort.
RECURSIVE insert_by_area(_, _)
insert_by_area(r, sorted) ==
    IF sorted = <<>> THEN <<r>>
    ELSE IF r.area2 < Head(sorted).area2 THEN <<r>> \o sorted
    ELSE <<Head(sorted)>> \o insert_by_area(r, Tail(sorted))

RECURSIVE sort_by_area(_)
sort_by_area(rs) ==
    IF rs = <<>> THEN <<>>
    ELSE insert_by_area(rs[Len(rs)], sort_by_area(SubSeq(rs, 1, Len(rs) - 1)))

\* for j in range(i + 1, n): if pj.contains(pi): parent[i] = j; break
RECURSIVE first_containing(_, _, _)
first_containing(cp, i, j) ==
    IF j > Len(cp) THEN NoParent
    ELSE IF contains(cp[j].pts, cp[i].pts) THEN j
    ELSE first_containing(cp, i, j + 1)

parents_of(cp) == [i \in 1..Len(cp) |-> first_containing(cp, i, i + 1)]

\* anc = par; while parent[anc] is not None: anc = parent[anc]
RECURSIVE walk_up(_, _)
walk_up(par, anc) == IF par[anc] = NoParent THEN anc ELSE walk_up(par, par[anc])

\* (mutation) the hole goes to the immediate parent
hole_owner_immediate(par, i) == par[i]

\* the record a non-root ring i is appended to
hole_owner(par, i) == walk_up(par, par[i])

\* the holes list of outers[r], in the order of the second loop
RECURSIVE holes_of(_, _, _, _)
holes_of(cp, par, r, i) ==
    IF i > Len(cp) THEN <<>>
    ELSE (IF par[i] # NoParent /\ hole_owner(par, i) = r THEN <<cp[i].pts>> ELSE <<>>)
         \o holes_of(cp, par, r, i + 1)

\* Polygon(outer, holes=holes), or the outer polygon alone when it raises
\* (a hole of fewer than 4 coordinates).
make_polygon(outer, holes) ==
    IF \E k \in 1..Len(holes) : Len(holes[k]) < 4
    THEN [outer |-> outer, holes |-> <<>>]
    ELSE [outer |-> outer, holes |-> holes]

\* polygons_out: one polygon per key of outers, in insertion order
RECURSIVE emit_polygons(_, _, _)
emit_polygons(cp, par, i) ==
    IF i > Len(cp) THEN <<>>
    ELSE (IF par[i] = NoParent
          THEN <<make_polygon(cp[i].pts, holes_of(cp, par, i, 1))>>
          ELSE <<>>)
         \o emit_polygons(cp, par, i + 1)

----------------------------------------------------------------------------
(* Float arithmetic of the metrics: values are <<kind, value>> pairs with  *)
(* kind "fin", "inf", "ninf" or "nan".                                     *)

NegInf == <<"ninf", 0>>

Add(a, b) ==
    CASE a[1] = "nan" \/ b[1] = "nan" -> NaN
      [] a[1] = "fin" /\ b[1] = "fin" -> Fin(a[2] + b[2])
      [] a[1] = "fin" -> b
      [] b[1] = "fin" -> a
      [] a[1] = b[1] -> a
      [] OTHER -> NaN

Neg(a) ==
    CASE a[1] = "fin" -> Fin(-a[2])
      [] a[1] = "inf" -> NegInf
      [] a[1] = "ninf" -> Inf
      [] OTHER -> NaN

Sub(a, b) == Add(a, Neg(b))

\* a <= b on floats without nan
LessEq(a, b) ==
    CASE a[1] = "ninf" \/ b[1] = "inf" -> TRUE
      [] a[1] = "fin" /\ b[1] = "fin" -> a[2] <= b[2]
      [] OTHER -> FALSE

\* min(xs), max(xs) of a non-empty set of floats without nan
MinOf(S) == CHOOSE m \in S : \A x \in S : LessEq(m, x)
MaxOf(S) == CHOOSE m \in S : \A x \in S : LessEq(x, m)

RECURSIVE Gcd(_, _)
Gcd(a, b) == IF b = 0 THEN a ELSE Gcd(b, a % b)

\* sqrt(dx^2 + dy^2) of integers: the common factor is taken out first, and
\* the root of what is left is rounded down.
IntHypot(dx, dy) ==
    LET g == Gcd(Abs(dx), Abs(dy))
    IN  IF g = 0 THEN 0
        ELSE LET a == Abs(dx) \div g
                 b == Abs(dy) \div g
                 r == CHOOSE k \in 0..(a + b) :
                          k * k <= a * a + b * b /\ (k + 1) * (k + 1) > a * a + b * b
             IN  g * r

Hypot(dx, dy) ==
    CASE dx[1] = "nan" \/ dy[1] = "nan" -> NaN
      [] dx[1] = "fin" /\ dy[1] = "fin" -> Fin(IntHypot(dx[2], dy[2]))
      [] OTHER -> Inf

\* ln.length of a LineString: the segment lengths summed along the line
RECURSIVE line_length(_, _)
line_length(pts, i) ==
    IF i >= Len(pts) THEN Fin(0)
    ELSE Add(Hypot(Sub(pts[i + 1][1], pts[i][1]), Sub(pts[i + 1][2], pts[i][2])),
             line_length(pts, i + 1))

----------------------------------------------------------------------------
(* unary_union(polygons_out) as a point set: the plane is cut into cells   *)
(* by the coordinates of the rings, and a cell belongs to the union when   *)
(* it lies in some polygon's outer ring and in none of its holes.  Rings   *)
(* here are simple with axis-parallel sides.                               *)

RECURSIVE SortedSeq(_)
SortedSeq(S) ==
    IF S = {} THEN <<>>
    ELSE LET m == CHOOSE x \in S : \A y \in S : x <= y
         IN  <<m>> \o SortedSeq(S \ {m})

rings_of(poly) == {poly.outer} \cup {poly.holes[k] : k \in 1..Len(poly.holes)}
all_rings(polys) == UNION {rings_of(polys[k]) : k \in 1..Len(polys)}
grid_xs(polys) ==
    SortedSeq(UNION {{PX(r[k]) : k \in 1..Len(r)} : r \in all_rings(polys)})
grid_ys(polys) ==
    SortedSeq(UNION {{PY(r[k]) : k \in 1..Len(r)} : r \in all_rings(polys)})

\* the point (cx2 / 2, cy2 / 2), on no side of ring, lies inside ring: the
\* ray to its right crosses an odd number of sides
inside_ring(cx2, cy2, ring) ==
    Cardinality({k \in 1..(Len(ring) - 1) :
        /\ PX(ring[k]) = PX(ring[k + 1])
        /\ 2 * PX(ring[k]) > cx2
        /\ (2 * PY(ring[k]) > cy2) # (2 * PY(ring[k + 1]) > cy2)}) % 2 = 1

\* cell (i, j) of the grid belongs to the union
covered(polys, xs, ys, i, j) ==
    /\ i \in 1..(Len(xs) - 1)
    /\ j \in 1..(Len(ys) - 1)
    /\ LET cx2 == xs[i] + xs[i + 1]
           cy2 == ys[j] + ys[j + 1]
       IN  \E k \in 1..Len(polys) :
              /\ inside_ring(cx2, cy2, polys[k].outer)
              /\ \A h \in 1..Len(polys[k].holes) :
                    ~inside_ring(cx2, cy2, polys[k].holes[h])

covered_cells(polys) ==
    LET xs == grid_xs(polys)
        ys == grid_ys(polys)
    IN  {c \in (1..(Len(xs) - 1)) \X (1..(Len(ys) - 1)) :
            covered(polys, xs, ys, c[1], c[2])}

\* the sum of the function f over the subset S of its domain
RECURSIVE SumOver(_, _)
SumOver(S, f) ==
    IF S = {} THEN 0
    ELSE LET x == CHOOSE y \in S : TRUE IN f[x] + SumOver(S \ {x}, f)

\* geom.area
union_area(polys) ==
    LET xs == grid_xs(polys)
        ys == grid_ys(polys)
        cs == covered_cells(polys)
        cell_area == [c \in cs |-> (xs[c[1] + 1] - xs[c[1]]) * (ys[c[2] + 1] - ys[c[2]])]
    IN  SumOver(cs, cell_area)

\* geom.length: the sides of covered cells whose other side is not covered
union_length(polys) ==
    LET xs == grid_xs(polys)
        ys == grid_ys(polys)
        open(i, j) == ~covered(polys, xs, ys, i, j)
        w(c) == xs[c[1] + 1] - xs[c[1]]
        h(c) == ys[c[2] + 1] - ys[c[2]]
        cs == covered_cells(polys)
        border == [c \in cs |->
            (IF open(c[1] - 1, c[2]) THEN h(c) ELSE 0)
            + (IF open(c[1] + 1, c[2]) THEN h(c) ELSE 0)
            + (IF open(c[1], c[2] - 1) THEN w(c) ELSE 0)
            + (IF open(c[1], c[2] + 1) THEN w(c) ELSE 0)]
    IN  SumOver(cs, border)

\* geom.bounds: (minx, miny, maxx, maxy), nan for an empty geometry
union_bounds(polys) ==
    LET xs == grid_xs(polys)
        ys == grid_ys(polys)
        cs == covered_cells(polys)
    IN  IF cs = {} THEN <<NaN, NaN, NaN, NaN>>
        ELSE <<Fin(xs[MinOf({Fin(c[1]) : c \in cs})[2]]),
               Fin(ys[MinOf({Fin(c[2]) : c \in cs})[2]]),
               Fin(xs[MaxOf({Fin(c[1]) : c \in cs})[2] + 1]),
               Fin(ys[MaxOf({Fin(c[2]) : c \in cs})[2] + 1])>>

----------------------------------------------------------------------------
(* The metrics computer. *)

\* (mutation) the try block around the whole loop: the first line that
\* raises ends the summation
RECURSIVE lines_length_abort(_, _, _)
lines_length_abort(lines, bad, k) ==
    IF k > Len(lines) \/ k \in bad THEN Fin(0)
    ELSE Add(line_length(lines[k], 1), lines_length_abort(lines, bad, k + 1))

\* for ln in open_lines: try: total_length_mm += ln.length / except: pass,
\* from line k on; bad holds the indices of the lines whose .length raises
RECURSIVE lines_length(_, _, _)
lines_length(lines, bad, k) ==
    IF k > Len(lines) THEN Fin(0)
    ELSE Add(IF k \in bad THEN Fin(0) ELSE line_length(lines[k], 1),
             lines_length(lines, bad, k + 1))

line_xs(lines) == UNION {{lines[k][i][1] : i \in 1..Len(lines[k])} : k \in 1..Len(lines)}
line_ys(lines) == UNION {{lines[k][i][2] : i \in 1..Len(lines[k])} : k \in 1..Len(lines)}

\* (mutation) the open lines always take part in the bounds
bounds_of_everything(polys, lines) ==
    LET b == IF polys # <<>> THEN union_bounds(polys) ELSE <<Inf, Inf, NegInf, NegInf>>
        xs == line_xs(lines) \cup {b[1], b[3]}
        ys == line_ys(lines) \cup {b[2], b[4]}
    IN  IF polys = <<>> /\ lines = <<>> THEN <<Fin(0), Fin(0), Fin(0), Fin(0)>>
        ELSE <<MinOf(xs), MinOf(ys), MaxOf(xs), MaxOf(ys)>>

\* minx, miny, maxx, maxy of compute_metrics
bounds_of(polys, lines) ==
    IF polys # <<>> THEN union_bounds(polys)
    ELSE IF line_xs(lines) # {} /\ line_ys(lines) # {}
    THEN <<MinOf(line_xs(lines)), MinOf(line_ys(lines)),
           MaxOf(line_xs(lines)), MaxOf(line_ys(lines))>>
    ELSE <<Fin(0), Fin(0), Fin(0), Fin(0)>>

\* The tuple compute_metrics returns.  area_mm2 and total_length_mm are kept
\* beside the divisors of area_cm2 = area_mm2 / 100 and length_m =
\* total_length_mm / 1000; geom is the list of polygons it is the union of.
compute_metrics(polys, lines, bad) ==
    LET b == bounds_of(polys, lines)
    IN  [area_cm2 |-> [num |-> IF polys # <<>> THEN Fin(union_area(polys)) ELSE Fin(0),
                       den |-> 100],
         length_m |-> [num |-> Add(IF polys # <<>> THEN Fin(union_length(polys))
                                   ELSE Fin(0),
                                   lines_length(lines, bad, 1)),
                       den |-> 1000],
         width_mm |-> Sub(b[3], b[1]),
         height_mm |-> Sub(b[4], b[2]),
         bounds |-> b,
         geom |-> IF polys # <<>> THEN <<"union", polys>> ELSE <<"None", <<>> >>]

----------------------------------------------------------------------------
(* analyze_dxf as a state machine. *)

\* None
NoResult == <<>>

\* DxfImportTab.__init__, AppState and EstimateTab.__init__: nothing loaded
UiIdle ==
    /\ ui_pc = "idle" /\ selections = 0 /\ file_path = "" /\ analyses = 0
    /\ local_result = NoResult /\ tab_result = NoResult /\ shown = NoResult
    /\ emitted = <<>> /\ dxf_result = NoResult /\ info_label = NoResult
    /\ last_ok = NoResult
    /\ before = <<NoResult, NoResult, <<>> >>
    /\ outcome = "none"

Idle ==
    /\ UiIdle
    /\ factor = 0 /\ idx = 0 /\ pointlists = <<>>
    /\ closed_polys = <<>> /\ parent = <<>> /\ polygons_out = <<>>
    /\ open_lines = <<>> /\ metrics = <<>> /\ result = <<>>
    /\ arc_out = <<>>

\* A drawing: an unreadable file, or a readable one with a unit code and
\* entities.
Drawing(codes, catalog, maxlen) ==
    /\ readable \in BOOLEAN
    /\ IF readable
       THEN insunits \in codes /\ entities \in SeqsUpTo(catalog, maxlen)
       ELSE insunits = Absent /\ entities = <<>>
    /\ arc = NoArc
    /\ bad_lines = {}
    /\ pc = "start"
    /\ Idle

Init == Drawing(UnitCodes, ParseCatalog, MaxEntities)

InitContours == Drawing(ContourUnitCodes, ContourCatalog, MaxContours)

InitPartition == Drawing(ContourUnitCodes, PartitionCatalog, MaxContours)

InitArc ==
    /\ readable = FALSE /\ insunits = Absent /\ entities = <<>>
    /\ arc \in {Circle} \cup {Arc(sa, ea) : sa \in Angles, ea \in Angles}
    /\ bad_lines = {}
    /\ pc = "arc"
    /\ Idle

\* a polygon of the assembler's making in a millimetre drawing: the contour
\* e with the contours hs as its holes
PolygonOf(e, hs) ==
    [outer |-> close_ring(ScalePts(e.pts, DefaultFactor)),
     holes |-> [k \in 1..Len(hs) |-> close_ring(ScalePts(hs[k].pts, DefaultFactor))]]

\* the polygon lists compute_metrics is called with: none, one square, a
\* square with a hole, two squares that overlap
PolygonInputs ==
    {<<>>,
     <<PolygonOf(SqInner, <<>>)>>,
     <<PolygonOf(SqOuter, <<SqInner>>)>>,
     <<PolygonOf(SqMiddle, <<>>), PolygonOf(SqCorner, <<>>)>>}

\* the open lines it is called with: a 3-4-5 segment, a level segment, a
\* line of two segments and a segment to infinity
LineInputs ==
    {ScalePts(LineSeg.pts, DefaultFactor),
     <<Pt(0, 0), Pt(10, 0)>>,
     <<Pt(0, 0), Pt(3, 4), Pt(3, 8)>>,
     ScalePts(LineInf.pts, DefaultFactor)}

\* compute_metrics called on its own, on polygons and open lines of which
\* any may raise when its length is asked for
InitMetrics ==
    /\ readable = TRUE /\ insunits = 4 /\ entities = <<>>
    /\ arc = NoArc
    /\ factor = DefaultFactor /\ idx = 1 /\ pointlists = <<>>
    /\ closed_polys = <<>> /\ parent = <<>>
    /\ polygons_out \in PolygonInputs
    /\ open_lines \in SeqsUpTo(LineInputs, MaxLines)
    /\ bad_lines \in SUBSET (1..Len(open_lines))
    /\ metrics = <<>> /\ result = <<>> /\ arc_out = <<>>
    /\ pc = "metrics"
    /\ UiIdle

\* (mutation) the read error is swallowed and a result without metrics
\* is handed back
ReadFailPartial ==
    /\ pc = "start"
    /\ ~readable
    /\ result' = <<[source_path |-> "path", scale_factor |-> DefaultFactor]>>
    /\ pc' = "returned"
    /\ UNCHANGED <<ui_vars, bad_lines, readable, insunits, entities, factor, idx, pointlists,
                   closed_polys, parent, polygons_out, open_lines, metrics,
                   arc, arc_out>>

\* doc = ezdxf.readfile(str(path)) raises: the error reaches the caller
ReadFail ==
    /\ pc = "start"
    /\ ~readable
    /\ pc' = "error"
    /\ UNCHANGED <<ui_vars, bad_lines, readable, insunits, entities, factor, idx, pointlists,
                   closed_polys, parent, polygons_out, open_lines, metrics,
                   result, arc, arc_out>>

\* parse_dxf up to the loop: the file is read and the factor resolved
ReadOk ==
    /\ pc = "start"
    /\ readable
    /\ factor' = resolve_factor(insunits)
    /\ idx' = 1
    /\ pointlists' = <<>>
    /\ pc' = "scan"
    /\ UNCHANGED <<ui_vars, bad_lines, readable, insunits, entities, closed_polys, parent,
                   polygons_out, open_lines, metrics, result, arc, arc_out>>

\* one pass of the loop of parse_dxf
ScanEntity ==
    /\ pc = "scan"
    /\ idx <= Len(entities)
    /\ LET r == scan_entity(entities[idx], factor)
       IN  IF r.raised
           THEN pc' = "error" /\ UNCHANGED <<idx, pointlists>>
           ELSE /\ pointlists' = pointlists \o r.out
                /\ idx' = idx + 1
                /\ pc' = pc
    /\ UNCHANGED <<ui_vars, bad_lines, readable, insunits, entities, factor, closed_polys, parent,
                   polygons_out, open_lines, metrics, result, arc, arc_out>>

\* parse_dxf returns and build_polygons_with_holes runs
BuildPolygons ==
    /\ pc = "scan"
    /\ idx > Len(entities)
    /\ LET cp == sort_by_area(collect_rings(pointlists))
           par == parents_of(cp)
       IN  /\ closed_polys' = cp
           /\ parent' = par
           /\ polygons_out' = emit_polygons(cp, par, 1)
           /\ open_lines' = collect_lines(pointlists)
    /\ pc' = "metrics"
    /\ UNCHANGED <<ui_vars, bad_lines, readable, insunits, entities, factor, idx, pointlists,
                   metrics, result, arc, arc_out>>

ComputeMetrics ==
    /\ pc = "metrics"
    /\ metrics' = <<compute_metrics(polygons_out, open_lines, bad_lines)>>
    /\ pc' = "return"
    /\ UNCHANGED <<ui_vars, bad_lines, readable, insunits, entities, factor, idx, pointlists,
                   closed_polys, parent, polygons_out, open_lines, result,
                   arc, arc_out>>

\* return DXFAnalysisResult(...)
Return ==
    /\ pc = "return"
    /\ result' = <<[source_path |-> "path",
                    scale_factor |-> factor,
                    area_cm2 |-> metrics[1].area_cm2,
                    length_m |-> metrics[1].length_m,
                    width_mm |-> metrics[1].width_mm,
                    height_mm |-> metrics[1].height_mm,
                    geometry |-> metrics[1].geom,
                    polygons |-> polygons_out,
                    open_lines |-> open_lines]>>
    /\ pc' = "returned"
    /\ UNCHANGED <<ui_vars, bad_lines, readable, insunits, entities, factor, idx, pointlists,
                   closed_polys, parent, polygons_out, open_lines, metrics,
                   arc, arc_out>>

\* entity_to_pointlists on a CIRCLE or ARC entity
Tessellate ==
    /\ pc = "arc"
    /\ arc_out' = arc_to_pointlists(arc)
    /\ pc' = "arc_done"
    /\ UNCHANGED <<ui_vars, bad_lines, readable, insunits, entities, factor, idx, pointlists,
                   closed_polys, parent, polygons_out, open_lines, metrics,
                   result, arc>>

----------------------------------------------------------------------------
(* The import tab: DxfImportTab._handle_select_clicked, connected to the   *)
(* button, and EasyWorkWindow._handle_dxf_loaded, connected to dxf_loaded. *)
(* analyze_dxf either raises or returns a new result record; a record is   *)
(* the pair of the file and the number of the analysis that made it.       *)

GoodFiles == {"a.dxf", "b.dxf"}
BadFiles == {"bad.dxf"}

\* the window as constructed, with no drawing under analysis
InitUI ==
    /\ readable = FALSE /\ insunits = Absent /\ entities = <<>>
    /\ arc = NoArc
    /\ bad_lines = {}
    /\ pc = "ui"
    /\ Idle

\* the button is clicked and the modal file dialog opens
SelectClicked ==
    /\ ui_pc = "idle"
    /\ selections < MaxSelections
    /\ selections' = selections + 1
    /\ ui_pc' = "dialog"
    /\ before' = <<tab_result, dxf_result, emitted>>
    /\ UNCHANGED <<engine_vars, file_path, analyses, local_result, tab_result,
                   shown, emitted, dxf_result, info_label, last_ok, outcome>>

\* if not file_path: return
DialogCancelled ==
    /\ ui_pc = "dialog"
    /\ file_path' = ""
    /\ ui_pc' = "idle"
    /\ outcome' = "cancelled"
    /\ UNCHANGED <<engine_vars, selections, analyses, local_result, tab_result, shown,
                   emitted, dxf_result, info_label, last_ok, before>>

\* the dialog returns a path
DialogAccepted ==
    /\ ui_pc = "dialog"
    /\ \E f \in GoodFiles \cup BadFiles : file_path' = f
    /\ ui_pc' = "analyze"
    /\ UNCHANGED <<engine_vars, selections, analyses, local_result, tab_result, shown,
                   emitted, dxf_result, info_label, last_ok, before, outcome>>

\* (mutation) the failed analysis clears the stored result
AnalyzeFailsClears ==
    /\ ui_pc = "analyze"
    /\ file_path \in BadFiles
    /\ tab_result' = NoResult
    /\ ui_pc' = "idle"
    /\ outcome' = "failed"
    /\ UNCHANGED <<engine_vars, selections, file_path, analyses, local_result, shown,
                   emitted, dxf_result, info_label, last_ok, before>>

\* analyze_dxf raises: except Exception: QMessageBox.critical(...); return
AnalyzeFails ==
    /\ ui_pc = "analyze"
    /\ file_path \in BadFiles
    /\ ui_pc' = "idle"
    /\ outcome' = "failed"
    /\ UNCHANGED <<engine_vars, selections, file_path, analyses, local_result, tab_result,
                   shown, emitted, dxf_result, info_label, last_ok, before>>

\* result = analyze_dxf(path_obj) returns
AnalyzeOk ==
    /\ ui_pc = "analyze"
    /\ file_path \in GoodFiles
    /\ analyses' = analyses + 1
    /\ local_result' = <<file_path, analyses + 1>>
    /\ last_ok' = <<file_path, analyses + 1>>
    /\ ui_pc' = "store"
    /\ UNCHANGED <<engine_vars, selections, file_path, tab_result, shown, emitted,
                   dxf_result, info_label, before, outcome>>

\* self._result = result
StoreResult ==
    /\ ui_pc = "store"
    /\ tab_result' = local_result
    /\ ui_pc' = "update"
    /\ UNCHANGED <<engine_vars, selections, file_path, analyses, local_result, shown,
                   emitted, dxf_result, info_label, last_ok, before, outcome>>

\* self._update_metrics(result)
UpdateMetrics ==
    /\ ui_pc = "update"
    /\ shown' = local_result
    /\ ui_pc' = "emit"
    /\ UNCHANGED <<engine_vars, selections, file_path, analyses, local_result, tab_result,
                   emitted, dxf_result, info_label, last_ok, before, outcome>>

\* self.dxf_loaded.emit(result): the connected slot is called at once
EmitLoaded ==
    /\ ui_pc = "emit"
    /\ emitted' = Append(emitted, local_result)
    /\ ui_pc' = "slot"
    /\ UNCHANGED <<engine_vars, selections, file_path, analyses, local_result, tab_result,
                   shown, dxf_result, info_label, last_ok, before, outcome>>

\* EasyWorkWindow._handle_dxf_loaded(result), after which emit and the
\* click handler return
HandleDxfLoaded ==
    /\ ui_pc = "slot"
    /\ dxf_result' = emitted[Len(emitted)]
    /\ info_label' = emitted[Len(emitted)]
    /\ ui_pc' = "idle"
    /\ outcome' = "loaded"
    /\ UNCHANGED <<engine_vars, selections, file_path, analyses, local_result, tab_result,
                   shown, emitted, last_ok, before>>

NextUI ==
    \/ SelectClicked \/ DialogCancelled \/ DialogAccepted
    \/ AnalyzeFails \/ AnalyzeOk
    \/ StoreResult \/ UpdateMetrics \/ EmitLoaded \/ HandleDxfLoaded

Next == ReadFail \/ ReadOk \/ ScanEntity \/ BuildPolygons \/ ComputeMetrics \/ Return

NextArc == Tessellate

NextMetrics == ComputeMetrics

Spec == Init /\ [][Next]_vars

SpecContours == InitContours /\ [][Next]_vars

SpecPartition == InitPartition /\ [][Next]_vars

SpecArc == InitArc /\ [][NextArc]_vars

SpecUI == InitUI /\ [][NextUI]_vars

SpecMetrics == InitMetrics /\ [][NextMetrics]_vars

----------------------------------------------------------------------------
(* Properties. *)

Built == pc \in {"metrics", "return", "returned"}
Scanned == Built \/ (pc = "scan" /\ idx > Len(entities))
Measured == pc \in {"return", "returned"}

RingCount == Len(closed_polys)
Contains(j, i) == contains(closed_polys[j].pts, closed_polys[i].pts)
Roots == {i \in 1..RingCount : parent[i] = NoParent}

\* the ring reached from i by k parent links, NoParent past a root
RECURSIVE Up(_, _)
Up(i, k) ==
    IF k = 0 \/ i = NoParent THEN i ELSE Up(parent[i], k - 1)

\* r is a proper ancestor of i
Ancestor(r, i) == \E k \in 1..RingCount : r # NoParent /\ Up(i, k) = r

Forest ==
    /\ Len(parent) = RingCount
    /\ \A i \in 1..RingCount : parent[i] \in (0..RingCount) \ {i}
    /\ \A i \in 1..RingCount : ~Ancestor(i, i)
    /\ \A i \in 1..RingCount : \E k \in 0..(RingCount - 1) : Up(i, k) \in Roots

SortedByArea ==
    \A i \in 1..RingCount : \A j \in i..RingCount :
        closed_polys[i].area2 <= closed_polys[j].area2

\* parent[i] is the first ring after i that contains i, and none of the
\* rings of the set among(i) that contain i has a smaller area
NearestParent(among(_)) ==
    \A i \in 1..RingCount :
        parent[i] # NoParent =>
            /\ parent[i] > i
            /\ Contains(parent[i], i)
            /\ \A j \in (i + 1)..(parent[i] - 1) : ~Contains(j, i)
            /\ \A k \in among(i) :
                  Contains(k, i) => closed_polys[parent[i]].area2 <= closed_polys[k].area2

\* i is a root exactly when no ring of among(i) contains it
RootsAreFree(among(_)) ==
    \A i \in 1..RingCount :
        parent[i] = NoParent <=> ~\E j \in among(i) : Contains(j, i)

OtherRings(i) == (1..RingCount) \ {i}
LaterRings(i) == (i + 1)..RingCount

\* C1 as stated: after the build the rings are sorted by area, parent[i] is
\* the first ring after i that contains i and the smallest of all the OTHER
\* rings that contain i, parent[i] is none exactly when no OTHER ring
\* contains i, and the parent links form a forest.
C1_Original ==
    Built =>
        /\ SortedByArea /\ Forest
        /\ NearestParent(OtherRings)
        /\ RootsAreFree(OtherRings)

\* What the build does guarantee: the same with "the rings LATER in the
\* ascending order" for "the other rings".  Of two coincident rings the
\* first becomes the child of the second, and the second takes its parent
\* among the later rings only, although the first contains it.
LaterParentForest ==
    Built =>
        /\ SortedByArea /\ Forest
        /\ NearestParent(LaterRings)
        /\ RootsAreFree(LaterRings)

\* the descendants of ring r, in ascending order
Descendants(r) == SortedSeq({i \in 1..RingCount : Ancestor(r, i)})

RootSeq == SortedSeq(Roots)

RECURSIVE TotalHoles(_)
TotalHoles(ps) == IF ps = <<>> THEN 0 ELSE Len(Head(ps).holes) + TotalHoles(Tail(ps))

ring_pts(e, f) == close_ring(ScalePts(e.pts, f))

\* C2: one polygon per root of the forest, in the order of the roots; its
\* outer boundary is the root and its holes are the boundaries of all the
\* descendants of the root at any depth, one entry per descendant, so that
\* every ring that is not a root is a hole of exactly one polygon.  Two
\* nested squares give one polygon with the inner one as its only hole,
\* three squares nested three deep one polygon with both inner squares.
C2_HolesAreDescendants ==
    Built =>
        /\ Len(polygons_out) = Cardinality(Roots)
        /\ \A k \in 1..Len(polygons_out) :
              /\ polygons_out[k].outer = closed_polys[RootSeq[k]].pts
              /\ polygons_out[k].holes =
                    [m \in 1..Len(Descendants(RootSeq[k])) |->
                        closed_polys[Descendants(RootSeq[k])[m]].pts]
        /\ TotalHoles(polygons_out) = RingCount - Cardinality(Roots)
        /\ (entities = <<SqOuter, SqInner>> \/ entities = <<SqInner, SqOuter>>) =>
              polygons_out = <<[outer |-> ring_pts(SqOuter, factor),
                                holes |-> <<ring_pts(SqInner, factor)>>]>>
        /\ (Len(entities) = 3 /\ {entities[k] : k \in 1..3} = {SqOuter, SqMiddle, SqInner}) =>
              polygons_out = <<[outer |-> ring_pts(SqOuter, factor),
                                holes |-> <<ring_pts(SqInner, factor),
                                            ring_pts(SqMiddle, factor)>>]>>

\* three squares nested three deep have been assembled into one polygon
\* with two holes
C2_Witness ==
    /\ Built
    /\ RingCount = 3
    /\ parent = <<2, 3, NoParent>>
    /\ closed_polys[1].area2 < closed_polys[2].area2
    /\ closed_polys[2].area2 < closed_polys[3].area2
    /\ Len(polygons_out) = 1
    /\ Len(polygons_out[1].holes) = 2

InScan == pc \in {"scan", "metrics", "return", "returned"}
Has(e) == \E k \in 1..Len(entities) : entities[k] = e

Supported == {"LWPOLYLINE", "POLYLINE", "LINE", "CIRCLE", "ARC", "SPLINE"}

\* what an entity is to contribute: nothing when it raises or is of an
\* unsupported type, its filtered sequences otherwise
Contribution(e, f) ==
    IF e.raises \/ e.dxftype \notin Supported THEN <<>>
    ELSE FilterChunk(entity_to_pointlists(e, f))

\* C3: no error of the scan reaches the caller of parse_dxf, and after any
\* number of entities the list holds exactly the sequences of the valid
\* entities scanned so far, in entity order; an unsupported entity followed
\* by a valid segment yields exactly that segment.
C3_FaultIsolation ==
    /\ readable => pc # "error"
    /\ InScan =>
          pointlists = Concat([k \in 1..(idx - 1) |-> Contribution(entities[k], factor)])
    /\ Scanned => idx = Len(entities) + 1
    /\ (Scanned /\ entities = <<Unsupported, LineSeg>>) =>
          pointlists = <<PointList(FALSE,
                                   <<Pt(0, 0), Pt(3000 * factor, 4000 * factor)>>,
                                   "line")>>

\* a raising entity and an unsupported one were scanned before a valid
\* segment, and the segment is all that was collected
C3_Witness ==
    /\ Scanned
    /\ entities = <<Broken, Unsupported, LineSeg>>
    /\ Len(pointlists) = 1
    /\ pointlists[1].etype = "line"

ResultFields ==
    {"source_path", "scale_factor", "area_cm2", "length_m", "width_mm",
     "height_mm", "geometry", "polygons", "open_lines"}

\* every field of the record holds the value the pipeline computed for it
Complete(r) ==
    /\ DOMAIN r = ResultFields
    /\ Len(metrics) = 1
    /\ r.scale_factor = factor /\ factor > 0
    /\ r.area_cm2 = metrics[1].area_cm2
    /\ r.length_m = metrics[1].length_m
    /\ r.width_mm = metrics[1].width_mm
    /\ r.height_mm = metrics[1].height_mm
    /\ r.geometry = metrics[1].geom
    /\ (r.geometry[1] = "None") <=> (r.polygons = <<>>)
    /\ r.polygons = polygons_out
    /\ r.open_lines = open_lines

\* analyze_dxf has ended, or one of its steps can be taken
CanStep ==
    \/ pc \in {"error", "returned"}
    \/ pc \in {"start", "metrics", "return"}
    \/ pc = "scan" /\ idx \in 1..(Len(entities) + 1)

C5_Original ==
    \A k \in 1..Len(pointlists) :
        /\ Len(pointlists[k].pts) >= 2
        /\ \A i \in 1..Len(pointlists[k].pts) : PointFinite(pointlists[k].pts[i])

\* the factor the table of the unit resolver gives the code in the header
ExpectedFactor ==
    CASE insunits = 1 -> 127
      [] insunits = 2 -> 1524
      [] insunits = 4 -> 5
      [] insunits = 5 -> 50
      [] insunits = 6 -> 5000
      [] OTHER -> 5

\* C9: once the file is read the factor is the table's (25.4, 304.8, 1.0,
\* 10.0, 1000.0 at 5 to the unit) and 1.0 for any other or an absent code;
\* it is positive, resolving it raises nothing, and every coordinate
\* collected is the raw coordinate times that factor.
C9_UnitFactor ==
    /\ readable => pc # "error"
    /\ InScan =>
          /\ factor = ExpectedFactor
          /\ factor > 0
          /\ pointlists =
                Concat([k \in 1..(idx - 1) |->
                          Contribution(entities[k], ExpectedFactor)])
          /\ \A k \in 1..(idx - 1) :
                entities[k] = LineSeg =>
                    \E m \in 1..Len(pointlists) :
                        pointlists[m].pts =
                            <<Pt(0, 0), Pt(3000 * ExpectedFactor, 4000 * ExpectedFactor)>>
    /\ pc = "returned" => result[1].scale_factor = ExpectedFactor

\* an inch drawing with one segment has been analysed at 25.4 to the unit
C9_Witness ==
    /\ pc = "returned"
    /\ insunits = 1
    /\ entities = <<LineSeg>>
    /\ factor = 127
    /\ pointlists[1].pts = <<Pt(0, 0), Pt(381000, 508000)>>

Tessellated == pc = "arc_done"
Samples == arc_out[1].pts

\* the angle swept from the start to the end after the wraparound
Span == IF arc.dxftype = "CIRCLE" THEN 360
        ELSE IF arc.end_angle < arc.start_angle
        THEN arc.end_angle + 360 - arc.start_angle
        ELSE arc.end_angle - arc.start_angle

\* round(120 * span / 360): the quotient is never half way
RoundedCount == (2 * PTS * Span + 360) \div 720

\* consecutive samples are the same angle apart
EvenlySpaced ==
    \A i \in 2..(Len(Samples) - 1) :
        Samples[i + 1].num - Samples[i].num = Samples[i].num - Samples[i - 1].num

\* C6 as stated: a tessellation has max(4, round(120 * span / 360)) samples,
\* evenly spaced, and a full circle is one closed sequence of 120 samples.
C6_Original ==
    Tessellated =>
        /\ Len(arc_out) = 1
        /\ Len(Samples) = Max2(4, RoundedCount)
        /\ EvenlySpaced
        /\ arc.dxftype = "CIRCLE" => (arc_out[1].closed /\ Len(Samples) = 120)

\* C7: the tessellation of an arc is one open sequence that starts at the
\* start angle, never turns back, and ends at the end angle, 360 degrees
\* being added to an end angle below the start angle: it sweeps
\* end + 360 - start then (20 degrees from 350 to 10) and end - start
\* otherwise.  Start and end angles range over 0..360.
C7_Wraparound ==
    (Tessellated /\ arc.dxftype = "ARC") =>
        LET n == Len(Samples)
            first == Samples[1]
            last == Samples[n]
        IN  /\ Len(arc_out) = 1 /\ ~arc_out[1].closed
            /\ n >= 4
            /\ first.num = arc.start_angle * first.den
            /\ last.num =
                  (IF arc.end_angle < arc.start_angle
                   THEN arc.end_angle + 360 ELSE arc.end_angle) * last.den
            /\ last.num - first.num = Span * last.den
            /\ Span >= 0
            /\ \A i \in 1..(n - 1) :
                  Samples[i].den = Samples[i + 1].den /\ Samples[i].num <= Samples[i + 1].num
            /\ (arc.start_angle = 350 /\ arc.end_angle = 10) => Span = 20

\* the arc from 350 to 10 degrees has been tessellated from 350 to 370
C7_Witness ==
    /\ Tessellated
    /\ arc = Arc(350, 10)
    /\ Samples[1].num = 350 * Samples[1].den
    /\ Samples[Len(Samples)].num = 370 * Samples[1].den

\* C8: every ring of the output, outer boundary or hole, is a valid simple
\* ring of area above 1e-6 mm^2 (twice the area above twice the threshold),
\* and dropping the other candidates raises nothing.
C8_NoDegenerateRing ==
    /\ readable => pc # "error"
    /\ Built =>
          \A k \in 1..Len(polygons_out) :
              \A r \in rings_of(polygons_out[k]) :
                  /\ ~LinearRingRaises(r)
                  /\ is_valid(r)
                  /\ Area2(r) > 2 * AreaEps

\* a square of exactly 1e-6 mm^2, a self-crossing contour and a two-point
\* contour were all dropped from a drawing whose one good ring was kept
C8_Witness ==
    /\ Built
    /\ insunits = 4
    /\ Has(Tiny) /\ Has(Bowtie) /\ Has(SqInner)
    /\ Len(polygons_out) = 1
    /\ polygons_out[1] = [outer |-> ring_pts(SqInner, factor), holes |-> <<>>]

\* the vertices of the outer boundaries of the polygons
OuterXs == UNION {{polygons_out[k].outer[i][1] : i \in 1..Len(polygons_out[k].outer)} :
                      k \in 1..Len(polygons_out)}
OuterYs == UNION {{polygons_out[k].outer[i][2] : i \in 1..Len(polygons_out[k].outer)} :
                      k \in 1..Len(polygons_out)}

\* m is the least, or else the greatest, value of the set S
Extreme(m, S, least) ==
    /\ m \in S
    /\ \A x \in S : IF least THEN LessEq(m, x) ELSE LessEq(x, m)

\* the holes of no polygon cover the whole of it
NoneCancelled ==
    \A k \in 1..Len(polygons_out) : covered_cells(<<polygons_out[k]>>) # {}

\* C10: with a polygon the bounding box is that of the combined geometry,
\* which, unless the holes of a polygon leave nothing of it, is the box of
\* the outer boundaries whatever the open lines are; with open lines only it is the
\* least and greatest coordinate of the lines on each axis; with neither
\* it is (0,0,0,0).  Width and height are the extents of the box: the
\* segment (0,0)-(3,4) mm alone gives 3 mm by 4 mm and area 0, an empty
\* drawing 0 by 0.
C10_BoundingBox ==
    Measured =>
        LET m == metrics[1]
            b == m.bounds
        IN  /\ m.width_mm = Sub(b[3], b[1])
            /\ m.height_mm = Sub(b[4], b[2])
            /\ polygons_out # <<>> => b = union_bounds(polygons_out)
            /\ (polygons_out # <<>> /\ NoneCancelled) =>
                  /\ Extreme(b[1], OuterXs, TRUE) /\ Extreme(b[3], OuterXs, FALSE)
                  /\ Extreme(b[2], OuterYs, TRUE) /\ Extreme(b[4], OuterYs, FALSE)
            /\ (polygons_out = <<>> /\ open_lines # <<>>) =>
                  /\ Extreme(b[1], line_xs(open_lines), TRUE)
                  /\ Extreme(b[3], line_xs(open_lines), FALSE)
                  /\ Extreme(b[2], line_ys(open_lines), TRUE)
                  /\ Extreme(b[4], line_ys(open_lines), FALSE)
            /\ (polygons_out = <<>> /\ open_lines = <<>>) =>
                  /\ b = <<Fin(0), Fin(0), Fin(0), Fin(0)>>
                  /\ m.width_mm = Fin(0) /\ m.height_mm = Fin(0)
            /\ (entities = <<LineSeg>> /\ insunits = 4) =>
                  /\ m.width_mm = Fin(3 * 5000) /\ m.height_mm = Fin(4 * 5000)
                  /\ m.area_cm2.num = Fin(0)

\* a drawing with a polygon and an open line reaching beyond it has been
\* measured: the box is the polygon's
C10_Witness ==
    /\ Measured
    /\ Has(SqMiddle) /\ Has(LineSeg)
    /\ Len(polygons_out) = 1 /\ Len(open_lines) = 1
    /\ metrics[1].width_mm = Fin(4 * factor)
    /\ metrics[1].height_mm = Fin(4 * factor)

\* the length in 1/5000 mm of each open line compute_metrics is called with
ExpectedLength(ln) ==
    CASE ln = ScalePts(LineSeg.pts, DefaultFactor) -> Fin(25000)
      [] ln = <<Pt(0, 0), Pt(10, 0)>> -> Fin(10)
      [] ln = <<Pt(0, 0), Pt(3, 4), Pt(3, 8)>> -> Fin(9)
      [] OTHER -> Inf

\* the boundary length and the area of each polygon list it is called
\* with: no polygon, a square of side 10, a square of side 30 with that
\* hole, squares of side 20 and 10 sharing a square of side 5
ExpectedBoundary ==
    CASE polygons_out = <<>> -> 0
      [] polygons_out = <<PolygonOf(SqInner, <<>>)>> -> 40
      [] polygons_out = <<PolygonOf(SqOuter, <<SqInner>>)>> -> 120 + 40
      [] OTHER -> 80 + 40 - 20

ExpectedArea ==
    CASE polygons_out = <<>> -> 0
      [] polygons_out = <<PolygonOf(SqInner, <<>>)>> -> 100
      [] polygons_out = <<PolygonOf(SqOuter, <<SqInner>>)>> -> 900 - 100
      [] OTHER -> 400 + 100 - 25

\* the lengths of the open lines with an index in S, added up
RECURSIVE SumLines(_)
SumLines(S) ==
    IF S = {} THEN Fin(0)
    ELSE LET k == CHOOSE i \in S : \A j \in S : i >= j
         IN  Add(SumLines(S \ {k}), ExpectedLength(open_lines[k]))

\* C11: the total length is the boundary length of the combined polygons
\* (0 without a polygon) plus the lengths of the open lines whose length
\* is computed, a line whose length raises adding 0 and stopping nothing;
\* length_m is that total over 1000, area_cm2 the combined area (0 without
\* a polygon) over 100.
C11_LengthAndArea ==
    Measured =>
        LET m == metrics[1]
        IN  /\ m.length_m.den = 1000
            /\ m.length_m.num =
                  Add(Fin(ExpectedBoundary),
                      SumLines((1..Len(open_lines)) \ bad_lines))
            /\ m.area_cm2.den = 100
            /\ m.area_cm2.num = Fin(ExpectedArea)
            /\ polygons_out = <<>> =>
                  (m.area_cm2.num = Fin(0) /\ m.geom[1] = "None")

\* a square with a hole and three open lines, the second of which raises,
\* have been measured: boundary 160 and twice the 25000 of the segment
C11_Witness ==
    /\ Measured
    /\ polygons_out = <<PolygonOf(SqOuter, <<SqInner>>)>>
    /\ Len(open_lines) = 3
    /\ open_lines[1] = ScalePts(LineSeg.pts, DefaultFactor)
    /\ open_lines[3] = ScalePts(LineSeg.pts, DefaultFactor)
    /\ bad_lines = {2}
    /\ metrics[1].length_m.num = Fin(160 + 50000)
    /\ metrics[1].area_cm2.num = Fin(800)

\* the sequences handed to build_polygons_with_holes with the closed flag
\* set, and those without it
ClosedInputs == SelectSeq(pointlists, LAMBDA pl : pl.closed)
OpenInputs == SelectSeq(pointlists, LAMBDA pl : ~pl.closed)
OpenInputPts == [k \in 1..Len(OpenInputs) |-> OpenInputs[k].pts]

\* C12: every ring comes from a sequence flagged closed and the open lines
\* are exactly the sequences flagged open, in their order, coinciding end
\* points or not; so there are no more rings than closed inputs and no
\* more open lines than open inputs, and without a closed input there is
\* no ring.  Closed sequences that give no ring are in no output: when
\* none gives a ring, length, box and area are those of the open inputs
\* alone, and of nothing when there is no open input.
C12_ClosedFlagPartition ==
    /\ Built =>
          /\ \A i \in 1..RingCount :
                \E k \in 1..Len(ClosedInputs) :
                    closed_polys[i].pts = close_ring(ClosedInputs[k].pts)
          /\ RingCount <= Len(ClosedInputs)
          /\ open_lines = OpenInputPts
          /\ Len(open_lines) <= Len(OpenInputs)
          /\ ClosedInputs = <<>> => (closed_polys = <<>> /\ polygons_out = <<>>)
          /\ \A k \in 1..Len(polygons_out) :
                \A r \in rings_of(polygons_out[k]) :
                    \E i \in 1..RingCount : closed_polys[i].pts = r
    /\ (Measured /\ closed_polys = <<>>) =>
          LET m == metrics[1]
              xs == line_xs(OpenInputPts)
              ys == line_ys(OpenInputPts)
          IN  /\ m.area_cm2.num = Fin(0)
              /\ m.length_m.num = lines_length(OpenInputPts, {}, 1)
              /\ OpenInputs # <<>> =>
                    /\ Extreme(m.bounds[1], xs, TRUE) /\ Extreme(m.bounds[3], xs, FALSE)
                    /\ Extreme(m.bounds[2], ys, TRUE) /\ Extreme(m.bounds[4], ys, FALSE)
              /\ OpenInputs = <<>> =>
                    /\ m.length_m.num = Fin(0)
                    /\ m.bounds = <<Fin(0), Fin(0), Fin(0), Fin(0)>>

\* a self-crossing closed contour, an open contour that returns to its
\* first point and a good square were assembled and measured: one ring,
\* one open line of five points
C12_Witness ==
    /\ Measured
    /\ Has(Bowtie) /\ Has(OpenLoop) /\ Has(SqOuter)
    /\ Len(ClosedInputs) = 2 /\ RingCount = 1
    /\ Len(polygons_out) = 1 /\ polygons_out[1].holes = <<>>
    /\ open_lines = <<ScalePts(OpenLoop.pts, factor)>>
    /\ open_lines[1][1] = open_lines[1][5]

\* closed contours only, all of them rejected, have been measured to nothing
C12_RejectedWitness ==
    /\ Measured
    /\ Has(Bowtie) /\ Has(TwoPt) /\ Len(entities) = 2
    /\ metrics[1].length_m.num = Fin(0)
    /\ metrics[1].width_mm = Fin(0)

UiAtRest == ui_pc = "idle"

\* C13: whenever the click handler is not running, the tab's stored result
\* and app_state.dxf_result are both the result of the latest successful
\* analysis, both None when none has succeeded; a selection that was
\* cancelled or failed has left both, and the signals emitted, as they
\* were at the click; one signal has been emitted per successful
\* analysis, carrying its result.
C13_LatestSuccess ==
    /\ UiAtRest =>
          /\ tab_result = last_ok
          /\ dxf_result = last_ok
          /\ (analyses = 0) <=> (last_ok = NoResult)
          /\ outcome \in {"cancelled", "failed"} =>
                before = <<tab_result, dxf_result, emitted>>
          /\ outcome = "loaded" =>
                /\ before[3] = SubSeq(emitted, 1, Len(emitted) - 1)
                /\ tab_result = <<file_path, analyses>>
    /\ ui_pc \in {"idle", "dialog", "analyze"} => Len(emitted) = analyses
    /\ \A k \in 1..Len(emitted) : emitted[k][2] = k /\ emitted[k][1] \in GoodFiles

\* a file was loaded, then a selection failed and another was cancelled:
\* tab and application still hold the first result
C13_Witness ==
    /\ UiAtRest
    /\ selections = 3
    /\ analyses = 1
    /\ outcome = "cancelled"
    /\ tab_result = <<"a.dxf", 1>>
    /\ dxf_result = <<"a.dxf", 1>>
    /\ Len(emitted) = 1

====
